---- MODULE Spec2Model ----
(***************************************************************************)
(* Model of the z-words-collector archiver.                                *)
(*                                                                         *)
(*   parser_daemon.py : monitor_channel / backfill_channel, two asyncio    *)
(*                      tasks per channel sharing index.json and the       *)
(*                      daily shard (specification Spec).                  *)
(*   parser.py        : fetch_messages_batch (SpecFetch), detect_gaps      *)
(*                      (SpecGaps), fetch_channel run again and again      *)
(*                      (SpecOneShot, SpecCutOff).                         *)
(*   SpecMerge, SpecLoad and SpecErrors run save_messages, load_index and  *)
(*   failing cycles of the daemon from chosen starting points.  SpecLive   *)
(*   is Spec with the fairness of the event loop; SpecCrash is a monitor   *)
(*   cycle whose process dies between its two writes, and the next one;    *)
(*   SpecBackfill is the daemon on an archive of the newest messages, with *)
(*   fetches that never fail and fair scheduling.                          *)
(*                                                                         *)
(* A record is [id, ver]: ver stands for the content of the message, so    *)
(* that two fetches of the same id can be told apart.  A JSON list is a    *)
(* sequence, Python's None is None, a file that does not exist is <<>>.    *)
(* asyncio is cooperative: the code between two awaits is one action.      *)
(***************************************************************************)
EXTENDS Integers, Sequences, FiniteSets, TLC

\* Bounds of the model.
MaxId == 3        \* upstream assigns the ids 1..MaxId
MaxDay == 2       \* date.today() takes the values 1..MaxDay
MaxDeleted == 1   \* the channel deletes at most MaxDeleted messages

\* Python's None (min_known_id of a new index).
None == 0 - 1

\* BACKFILL_LIMIT (environment, default 1000), scaled to the model.
BACKFILL_LIMIT == 2

VARIABLES
    upstream,            \* ids of the messages the channel holds now
    last_posted,         \* highest id the channel ever assigned
    today,               \* date.today()
    index_file,          \* index.json: <<>> absent, <<doc>> present,
                         \* <<doc, "cut off">> a part of doc only
    shard_files,         \* [day -> messages of <day>.json.gz], <<>> absent
    shutdown_requested,  \* the global shutdown flag
    monitor,             \* the monitor_channel task: [pc, index]
    backfill,            \* the backfill_channel task: [pc, index]
    mg,                  \* two merges in a row: [step, first, second, ...,
                         \* total_messages of the shard's metadata]
    call,                \* fetch_messages_batch: arguments of the caller's call
    frames,              \* fetch_messages_batch: its activations, innermost last
    ret,                 \* fetch_messages_batch: what the caller's call returned
    sleeps,              \* fetch_messages_batch: the asyncio.sleep durations
    attempts,            \* fetch_messages_batch: log of the attempts made
    fc,                  \* parser.py fetch_channel: [pc, index, forward]
    gp,                  \* detect_gaps run on its own: [step, result]
    peer                 \* the monitor_channel task of a second channel and
                         \* that channel's directory:
                         \* [pc, index, index_file, shard_files]

vars == <<upstream, last_posted, today, index_file, shard_files,
          shutdown_requested, monitor, backfill, mg,
          call, frames, ret, sleeps, attempts, fc, gp, peer>>

\* The variables of each program, for the steps of the others.
worldVars  == <<upstream, last_posted, today>>
diskVars   == <<index_file, shard_files>>
daemonVars == <<shutdown_requested, monitor, backfill>>
mergeVars  == <<mg>>
fetchVars  == <<call, frames, ret, sleeps, attempts>>
gapVars    == <<gp>>
peerVars   == <<peer>>

Days == 1..MaxDay

----------------------------------------------------------------------------
\* Helpers on lists of records.

Ids(s) == {s[i].id : i \in DOMAIN s}

SetMax(S) == CHOOSE x \in S : \A y \in S : y <= x
SetMin(S) == CHOOSE x \in S : \A y \in S : x <= y

Msg(i, v) == [id |-> i, ver |-> v]

\* The ids of S as a list, newest first: the order iter_messages yields.
RECURSIVE NewestFirst(_, _)
NewestFirst(S, v) ==
    IF S = {} THEN <<>>
    ELSE <<Msg(SetMax(S), v)>> \o NewestFirst(S \ {SetMax(S)}, v)

Prefix(s, k) == SubSeq(s, 1, k)

\* list.sort(key=id) / sorted(..., key=id): stable, ascending.
RECURSIVE InsertById(_, _)
InsertById(s, m) ==
    IF s = <<>> THEN <<m>>
    ELSE IF Head(s).id <= m.id THEN <<Head(s)>> \o InsertById(Tail(s), m)
    ELSE <<m>> \o s

RECURSIVE SortById(_)
SortById(s) ==
    IF s = <<>> THEN <<>>
    ELSE InsertById(SortById(SubSeq(s, 1, Len(s) - 1)), s[Len(s)])

\* {msg['id']: msg for msg in s}.values(): one entry per id, at the place of
\* the id's first occurrence, holding the id's last occurrence.
RECURSIVE DictPut(_, _)
DictPut(d, m) ==
    IF d = <<>> THEN <<m>>
    ELSE IF Head(d).id = m.id THEN <<m>> \o Tail(d)
    ELSE <<Head(d)>> \o DictPut(Tail(d), m)

RECURSIVE DictById(_)
DictById(s) ==
    IF s = <<>> THEN <<>>
    ELSE DictPut(DictById(SubSeq(s, 1, Len(s) - 1)), s[Len(s)])

----------------------------------------------------------------------------
\* index.json

\* The index load_index returns when index.json is absent.
NewIndex ==
    [total_posts_archived |-> 0,
     last_known_id |-> 0,
     min_known_id |-> None,
     last_backfill |-> None,
     data_files |-> <<>>,
     deleted_ids |-> <<>>,
     deleted_count |-> 0]

\* Mutant: whatever the file holds is taken for the document.
load_index_unchecked(file) == IF file = <<>> THEN NewIndex ELSE file[1]

\* The file's document, or a new index when the file is absent or json.load
\* raises JSONDecodeError.
load_index(file) == IF Len(file) = 1 THEN file[1] ELSE NewIndex

save_index(index) == <<index>>

\* save_index stopped between open(index_file, 'w') and the end of
\* json.dump: the file holds a strict prefix of the document, which is not
\* a JSON document.
save_index_cut_off(index) == <<index, "cut off">>

\* index['data_files'] with the entry of today's file replaced or appended.
RECURSIVE PutFileInfo(_, _)
PutFileInfo(files, info) ==
    IF files = <<>> THEN <<info>>
    ELSE IF Head(files).filename = info.filename THEN <<info>> \o Tail(files)
    ELSE <<Head(files)>> \o PutFileInfo(Tail(files), info)

----------------------------------------------------------------------------
\* parser_daemon.py: save_messages

\* Mutant: the shard is written from the batch alone.
MergeMessagesBatchOnly(existing, messages) ==
    SortById(DictById(messages))

\* Mutant: the batch first, so that the stored record wins over the new one.
MergeMessagesOldWins(existing, messages) ==
    SortById(DictById(messages \o existing))

\* The merge of a batch into the messages of today's shard.
MergeMessages(existing, messages) ==
    SortById(DictById(existing \o messages))

\* Mutant: every message of the batch counts as new.
NewCountWholeBatch(existing, messages) == Len(messages)

\* new_count: the messages of the batch whose id today's shard did not hold.
NewCount(existing, messages) ==
    Cardinality({i \in DOMAIN messages : messages[i].id \notin Ids(existing)})

\* Mutant: the metadata counts the messages of the batch.
file_metadata_counting_batch(unique_messages, messages) ==
    [total_messages |-> Len(messages),
     min_id_in_batch |-> SetMin(Ids(messages)),
     max_id_in_batch |-> SetMax(Ids(messages))]

\* file_data['metadata'] of the shard that is written.
file_metadata(unique_messages, messages) ==
    [total_messages |-> Len(unique_messages),
     min_id_in_batch |-> SetMin(Ids(messages)),
     max_id_in_batch |-> SetMax(Ids(messages))]

\* Mutant: last_known_id is left as the caller's index had it.
save_messages_keeping_last(index, shards, day, batch) ==
    LET messages == SortById(batch)
        existing == shards[day]
        unique   == MergeMessages(existing, messages)
        min_id   == SetMin(Ids(messages))
        newIndex ==
            [index EXCEPT
                !.total_posts_archived = @ + NewCount(existing, messages),
                !.min_known_id = IF @ = None THEN min_id
                                 ELSE IF min_id < @ THEN min_id ELSE @,
                !.data_files = PutFileInfo(@, [filename |-> day,
                                               posts_count |-> Len(unique)])]
    IN  [index |-> newIndex,
         shards |-> [shards EXCEPT ![day] = unique],
         metadata |-> file_metadata(unique, messages)]

\* save_messages with a non-empty batch: the shard (its messages and its
\* metadata) and the index it writes.
\* index is the caller's dict, which the call mutates and saves.
save_messages(index, shards, day, batch) ==
    LET messages == SortById(batch)
        existing == shards[day]
        unique   == MergeMessages(existing, messages)
        min_id   == SetMin(Ids(messages))
        max_id   == SetMax(Ids(messages))
        newIndex ==
            [index EXCEPT
                !.total_posts_archived = @ + NewCount(existing, messages),
                !.last_known_id = IF max_id > @ THEN max_id ELSE @,
                !.min_known_id = IF @ = None THEN min_id
                                 ELSE IF min_id < @ THEN min_id ELSE @,
                !.data_files = PutFileInfo(@, [filename |-> day,
                                               posts_count |-> Len(unique)])]
    IN  [index |-> newIndex,
         shards |-> [shards EXCEPT ![day] = unique],
         metadata |-> file_metadata(unique, messages)]

----------------------------------------------------------------------------
\* What fetch_messages_batch returned: nothing yet, a list, or an exception.
NoRet == [kind |-> "none", val |-> <<>>]
Returned(messages) == [kind |-> "value", val |-> messages]
Raised == [kind |-> "raise", val |-> <<>>]

\* No call of fetch_messages_batch is made.
NoFetch ==
    /\ call = [min_id |-> None, max_id |-> None, limit |-> None]
    /\ frames = <<>>
    /\ ret = NoRet
    /\ sleeps = <<>>
    /\ attempts = <<>>

\* fetch_channel between two runs of parser.py.
NoRun == [pc |-> "idle", index |-> NewIndex, forward |-> <<>>]

\* The value of gp before detect_gaps is run.
NoGaps == [step |-> 0, result |-> <<>>]

\* The value of peer when TARGET_CHANNELS names one channel only.
NoPeer == [pc |-> "none", index |-> NewIndex, index_file |-> <<>>,
           shard_files |-> [d \in Days |-> <<>>]]

\* The value of mg while no merge pair is run.
NoMerge == [step |-> 0, first |-> <<>>, second |-> <<>>,
            shard0 |-> <<>>, shard1 |-> <<>>, total1 |-> 0,
            total_messages |-> 0]

----------------------------------------------------------------------------
\* The channel and the calendar.

Post ==
    /\ last_posted < MaxId
    /\ last_posted' = last_posted + 1
    /\ upstream' = upstream \cup {last_posted + 1}
    /\ UNCHANGED <<mergeVars, fetchVars, fc, gapVars, peerVars>>
    /\ UNCHANGED <<today, index_file, shard_files, shutdown_requested,
                   monitor, backfill>>

Delete ==
    /\ last_posted - Cardinality(upstream) < MaxDeleted
    /\ \E i \in upstream : upstream' = upstream \ {i}
    /\ UNCHANGED <<mergeVars, fetchVars, fc, gapVars, peerVars>>
    /\ UNCHANGED <<last_posted, today, index_file, shard_files,
                   shutdown_requested, monitor, backfill>>

NextDay ==
    /\ today < MaxDay
    /\ today' = today + 1
    /\ UNCHANGED <<mergeVars, fetchVars, fc, gapVars, peerVars>>
    /\ UNCHANGED <<upstream, last_posted, index_file, shard_files,
                   shutdown_requested, monitor, backfill>>

\* signal_handler
signal_handler ==
    /\ ~shutdown_requested
    /\ shutdown_requested' = TRUE
    /\ UNCHANGED <<mergeVars, fetchVars, fc, gapVars, peerVars>>
    /\ UNCHANGED <<upstream, last_posted, today, index_file, shard_files,
                   monitor, backfill>>

----------------------------------------------------------------------------
\* parser_daemon.py: monitor_channel

\* What iter_messages(min_id=last_known_id) can yield, newest first.
NewAvailable(last_known_id) ==
    NewestFirst({i \in upstream : i > last_known_id}, 0)

\* Mutant: the loop does not look at the shutdown flag.
MonitorBeginUnchecked ==
    /\ monitor.pc = "top"
    /\ monitor' = [pc |-> "fetching", index |-> load_index(index_file)]
    /\ UNCHANGED <<mergeVars, fetchVars, fc, gapVars, peerVars>>
    /\ UNCHANGED <<upstream, last_posted, today, index_file, shard_files,
                   shutdown_requested, backfill>>

\* Top of the loop: the shutdown check, load_index, and the call of
\* fetch_new_messages up to its first network await.
MonitorBegin ==
    /\ monitor.pc = "top"
    /\ IF shutdown_requested
       THEN monitor' = [monitor EXCEPT !.pc = "exit"]
       ELSE monitor' = [pc |-> "fetching", index |-> load_index(index_file)]
    /\ UNCHANGED <<mergeVars, fetchVars, fc, gapVars, peerVars>>
    /\ UNCHANGED <<upstream, last_posted, today, index_file, shard_files,
                   shutdown_requested, backfill>>

\* FloodWaitError in fetch_new_messages: the collected messages are dropped,
\* the task sleeps e.seconds and calls fetch_new_messages again.
MonitorFloodWait ==
    /\ monitor.pc = "fetching"
    /\ monitor' = [monitor EXCEPT !.pc = "flood_sleep"]
    /\ UNCHANGED <<mergeVars, fetchVars, fc, gapVars, peerVars>>
    /\ UNCHANGED <<upstream, last_posted, today, index_file, shard_files,
                   shutdown_requested, backfill>>

MonitorFloodRetry ==
    /\ monitor.pc = "flood_sleep"
    /\ monitor' = [monitor EXCEPT !.pc = "fetching"]
    /\ UNCHANGED <<mergeVars, fetchVars, fc, gapVars, peerVars>>
    /\ UNCHANGED <<upstream, last_posted, today, index_file, shard_files,
                   shutdown_requested, backfill>>

\* fetch_new_messages returns and the cycle runs to its sleep.  k messages
\* were collected: all of them, or fewer when the iteration raised (the
\* except Exception branch logs and returns what was collected).
\* Mutant: the index is written also when nothing was fetched.
MonitorReturnsAlwaysSaving(new_messages) ==
    /\ monitor.pc = "fetching"
    /\ LET saved == save_messages(monitor.index, shard_files, today,
                                  new_messages)
       IN /\ shard_files' = IF new_messages # <<>> THEN saved.shards
                            ELSE shard_files
          /\ index_file' = save_index(IF new_messages # <<>> THEN saved.index
                                      ELSE monitor.index)
          /\ monitor' = [pc |-> "sleeping", index |-> NewIndex]
    /\ UNCHANGED <<mergeVars, fetchVars, fc, gapVars, peerVars>>
    /\ UNCHANGED <<upstream, last_posted, today, shutdown_requested, backfill>>

MonitorReturns(new_messages) ==
    /\ monitor.pc = "fetching"
    /\ LET saved == save_messages(monitor.index, shard_files, today,
                                  new_messages)
       IN IF new_messages # <<>>
          THEN /\ shard_files' = saved.shards
               /\ index_file' = save_index(saved.index)
               /\ monitor' = [pc |-> "sleeping", index |-> NewIndex]
          ELSE /\ monitor' = [pc |-> "sleeping", index |-> NewIndex]
               /\ UNCHANGED <<shard_files, index_file>>
    /\ UNCHANGED <<mergeVars, fetchVars, fc, gapVars, peerVars>>
    /\ UNCHANGED <<upstream, last_posted, today, shutdown_requested, backfill>>

MonitorFetched ==
    /\ monitor.pc = "fetching"
    /\ LET avail == NewAvailable(monitor.index.last_known_id)
       IN \E k \in 0..Len(avail) : MonitorReturns(Prefix(avail, k))

\* asyncio.sleep(MONITOR_INTERVAL) is over.
MonitorWake ==
    /\ monitor.pc = "sleeping"
    /\ monitor' = [monitor EXCEPT !.pc = "top"]
    /\ UNCHANGED <<mergeVars, fetchVars, fc, gapVars, peerVars>>
    /\ UNCHANGED <<upstream, last_posted, today, index_file, shard_files,
                   shutdown_requested, backfill>>

----------------------------------------------------------------------------
\* parser_daemon.py: backfill_channel

\* What iter_messages(max_id=min_known_id, limit=limit) can yield.
OldAvailable(min_known_id, limit) ==
    LET all == NewestFirst({i \in upstream : i < min_known_id}, 0)
    IN  Prefix(all, IF Len(all) < limit THEN Len(all) ELSE limit)

\* Mutant: >= for >, a fetch below id 1.
CanBackfillFromOne(min_known_id) ==
    min_known_id # None /\ min_known_id # 0 /\ min_known_id >= 1

\* if min_known_id and min_known_id > 1
CanBackfill(min_known_id) ==
    min_known_id # None /\ min_known_id # 0 /\ min_known_id > 1

\* Top of the loop: the shutdown check, load_index, the eligibility test.
BackfillBegin ==
    /\ backfill.pc = "top"
    /\ IF shutdown_requested
       THEN backfill' = [backfill EXCEPT !.pc = "exit"]
       ELSE LET index == load_index(index_file)
            IN IF CanBackfill(index.min_known_id)
               THEN backfill' = [pc |-> "fetching", index |-> index]
               ELSE backfill' = [pc |-> "sleeping", index |-> NewIndex]
    /\ UNCHANGED <<mergeVars, fetchVars, fc, gapVars, peerVars>>
    /\ UNCHANGED <<upstream, last_posted, today, index_file, shard_files,
                   shutdown_requested, monitor>>

\* fetch_old_messages returns and the cycle runs to its sleep.  k messages
\* were collected: all of them, or fewer when the iteration raised
\* (FloodWaitError: sleep, then return; Exception: log, then return).
BackfillReturns(old_messages) ==
    /\ backfill.pc = "fetching"
    /\ LET saved == save_messages(backfill.index, shard_files, today,
                                  old_messages)
           index == [saved.index EXCEPT !.last_backfill = today]
       IN IF old_messages # <<>>
          THEN /\ shard_files' = saved.shards
               /\ index_file' = save_index(index)
               /\ backfill' = [pc |-> "sleeping", index |-> NewIndex]
          ELSE /\ backfill' = [pc |-> "sleeping", index |-> NewIndex]
               /\ UNCHANGED <<shard_files, index_file>>
    /\ UNCHANGED <<mergeVars, fetchVars, fc, gapVars, peerVars>>
    /\ UNCHANGED <<upstream, last_posted, today, shutdown_requested, monitor>>

BackfillFetched ==
    /\ backfill.pc = "fetching"
    /\ LET avail == OldAvailable(backfill.index.min_known_id, BACKFILL_LIMIT)
       IN \E k \in 0..Len(avail) : BackfillReturns(Prefix(avail, k))

\* asyncio.sleep(BACKFILL_INTERVAL) is over.
BackfillWake ==
    /\ backfill.pc = "sleeping"
    /\ backfill' = [backfill EXCEPT !.pc = "top"]
    /\ UNCHANGED <<mergeVars, fetchVars, fc, gapVars, peerVars>>
    /\ UNCHANGED <<upstream, last_posted, today, index_file, shard_files,
                   shutdown_requested, monitor>>

----------------------------------------------------------------------------
\* The daemon: one channel, its two tasks, the channel and the calendar.

Init ==
    /\ upstream = {}
    /\ last_posted = 0
    /\ today = 1
    /\ index_file = <<>>
    /\ shard_files = [d \in Days |-> <<>>]
    /\ shutdown_requested = FALSE
    /\ monitor = [pc |-> "top", index |-> NewIndex]
    /\ backfill = [pc |-> "top", index |-> NewIndex]
    /\ mg = NoMerge
    /\ NoFetch
    /\ fc = NoRun
    /\ gp = NoGaps
    /\ peer = NoPeer

Next ==
    \/ Post
    \/ Delete
    \/ NextDay
    \/ signal_handler
    \/ MonitorBegin
    \/ MonitorFloodWait
    \/ MonitorFloodRetry
    \/ MonitorFetched
    \/ MonitorWake
    \/ BackfillBegin
    \/ BackfillFetched
    \/ BackfillWake

Spec == Init /\ [][Next]_vars

\* The daemon with its scheduling: the event loop resumes a task whose await
\* is over, a sleep ends, and a request to the channel is answered, with
\* messages or with an exception.  Which answer comes is the channel's
\* choice; nothing is assumed about the channel, the calendar or the signal.
Fairness ==
    /\ WF_vars(MonitorBegin)
    /\ WF_vars(MonitorFetched \/ MonitorFloodWait)
    /\ WF_vars(MonitorFloodRetry)
    /\ WF_vars(MonitorWake)
    /\ WF_vars(BackfillBegin)
    /\ WF_vars(BackfillFetched)
    /\ WF_vars(BackfillWake)

SpecLive == Init /\ [][Next]_vars /\ Fairness

----------------------------------------------------------------------------
\* The daemon with two channels, and cycles that fail (specification
\* SpecErrors).  An exception that leaves load_index or save_messages is
\* caught by the loop's `except Exception`, which logs it; the loop goes on
\* to its asyncio.sleep.  fetch_new_messages and fetch_old_messages catch
\* their own exceptions and return what they collected.

\* Where save_messages can raise: opening or writing the shard, opening or
\* writing index.json.
SavePoints == {"shard open", "shard write", "index open", "index write"}

\* The files after save_messages raised at the given point.  A shard whose
\* write stopped cannot be read: every reader treats it like no shard
\* (save_messages and detect_gaps catch the error of load_gzip_json).
FailedSave(saved, point) ==
    [shard_files |->
        IF point = "shard open" THEN shard_files
        ELSE IF point = "shard write" THEN [shard_files EXCEPT ![today] = <<>>]
        ELSE saved.shards,
     index_file |->
        IF point = "index write" THEN save_index_cut_off(saved.index)
        ELSE index_file]

\* load_index raises (index.json cannot be opened or read).
MonitorLoadFails ==
    /\ monitor.pc = "top"
    /\ ~shutdown_requested
    /\ monitor' = [pc |-> "sleeping", index |-> NewIndex]
    /\ UNCHANGED <<worldVars, diskVars, shutdown_requested, backfill>>
    /\ UNCHANGED <<mergeVars, fetchVars, fc, gapVars, peerVars>>

\* Mutant: no try/except in the loop, the exception ends the task.
MonitorSaveFailsEndingLoop ==
    /\ monitor.pc = "fetching"
    /\ LET avail == NewAvailable(monitor.index.last_known_id)
       IN \E k \in 1..Len(avail), point \in SavePoints :
            LET after == FailedSave(save_messages(monitor.index, shard_files,
                                                  today, Prefix(avail, k)),
                                    point)
            IN /\ shard_files' = after.shard_files
               /\ index_file' = after.index_file
    /\ monitor' = [pc |-> "exit", index |-> NewIndex]
    /\ UNCHANGED <<worldVars, shutdown_requested, backfill>>
    /\ UNCHANGED <<mergeVars, fetchVars, fc, gapVars, peerVars>>

\* save_messages raises in a monitor cycle.
MonitorSaveFails ==
    /\ monitor.pc = "fetching"
    /\ LET avail == NewAvailable(monitor.index.last_known_id)
       IN \E k \in 1..Len(avail), point \in SavePoints :
            LET after == FailedSave(save_messages(monitor.index, shard_files,
                                                  today, Prefix(avail, k)),
                                    point)
            IN /\ shard_files' = after.shard_files
               /\ index_file' = after.index_file
    /\ monitor' = [pc |-> "sleeping", index |-> NewIndex]
    /\ UNCHANGED <<worldVars, shutdown_requested, backfill>>
    /\ UNCHANGED <<mergeVars, fetchVars, fc, gapVars, peerVars>>

\* load_index raises in a backfill cycle.
BackfillLoadFails ==
    /\ backfill.pc = "top"
    /\ ~shutdown_requested
    /\ backfill' = [pc |-> "sleeping", index |-> NewIndex]
    /\ UNCHANGED <<worldVars, diskVars, shutdown_requested, monitor>>
    /\ UNCHANGED <<mergeVars, fetchVars, fc, gapVars, peerVars>>

\* save_messages, or the save_index that follows it, raises in a backfill
\* cycle.
BackfillSaveFails ==
    /\ backfill.pc = "fetching"
    /\ LET avail == OldAvailable(backfill.index.min_known_id, BACKFILL_LIMIT)
       IN \E k \in 1..Len(avail) :
            LET saved == save_messages(backfill.index, shard_files, today,
                                       Prefix(avail, k))
                index == [saved.index EXCEPT !.last_backfill = today]
            IN \/ \E point \in SavePoints :
                    /\ shard_files' = FailedSave(saved, point).shard_files
                    /\ index_file' = FailedSave(saved, point).index_file
               \/ /\ shard_files' = saved.shards
                  /\ index_file' \in {save_index(saved.index),
                                      save_index_cut_off(index)}
    /\ backfill' = [pc |-> "sleeping", index |-> NewIndex]
    /\ UNCHANGED <<worldVars, shutdown_requested, monitor>>
    /\ UNCHANGED <<mergeVars, fetchVars, fc, gapVars, peerVars>>

\* The messages of the second channel.
PeerChannel == {1}

MaxFailIds == 2   \* with failing cycles upstream assigns the ids 1..MaxFailIds

\* The channel gains a message.
PostWhileFailing == last_posted < MaxFailIds /\ Post

\* monitor_channel of the second channel: top of the loop.
PeerBegin ==
    /\ peer.pc = "top"
    /\ IF shutdown_requested
       THEN peer' = [peer EXCEPT !.pc = "exit"]
       ELSE peer' = [peer EXCEPT !.pc = "fetching",
                                 !.index = load_index(peer.index_file)]
    /\ UNCHANGED <<worldVars, diskVars, daemonVars>>
    /\ UNCHANGED <<mergeVars, fetchVars, fc, gapVars>>

\* monitor_channel of the second channel: fetch_new_messages returns and
\* the cycle runs to its sleep.
PeerFetched ==
    /\ peer.pc = "fetching"
    /\ LET avail == NewestFirst({i \in PeerChannel :
                                   i > peer.index.last_known_id}, 0)
       IN \E k \in 0..Len(avail) :
            LET saved == save_messages(peer.index, peer.shard_files, today,
                                       Prefix(avail, k))
            IN IF k > 0
               THEN peer' = [pc |-> "sleeping", index |-> NewIndex,
                             index_file |-> save_index(saved.index),
                             shard_files |-> saved.shards]
               ELSE peer' = [peer EXCEPT !.pc = "sleeping",
                                         !.index = NewIndex]
    /\ UNCHANGED <<worldVars, diskVars, daemonVars>>
    /\ UNCHANGED <<mergeVars, fetchVars, fc, gapVars>>

\* monitor_channel of the second channel: the sleep is over.
PeerWake ==
    /\ peer.pc = "sleeping"
    /\ peer' = [peer EXCEPT !.pc = "top"]
    /\ UNCHANGED <<worldVars, diskVars, daemonVars>>
    /\ UNCHANGED <<mergeVars, fetchVars, fc, gapVars>>

InitErrors ==
    /\ upstream = {}
    /\ last_posted = 0
    /\ today = 1
    /\ index_file = <<>>
    /\ shard_files = [d \in Days |-> <<>>]
    /\ shutdown_requested = FALSE
    /\ monitor = [pc |-> "top", index |-> NewIndex]
    /\ backfill = [pc |-> "top", index |-> NewIndex]
    /\ mg = NoMerge
    /\ NoFetch
    /\ fc = NoRun
    /\ gp = NoGaps
    /\ peer = [NoPeer EXCEPT !.pc = "top"]

NextErrors ==
    \/ PostWhileFailing
    \/ signal_handler
    \/ MonitorBegin
    \/ MonitorLoadFails
    \/ MonitorFloodWait
    \/ MonitorFloodRetry
    \/ MonitorFetched
    \/ MonitorSaveFails
    \/ MonitorWake
    \/ BackfillBegin
    \/ BackfillLoadFails
    \/ BackfillFetched
    \/ BackfillSaveFails
    \/ BackfillWake
    \/ PeerBegin
    \/ PeerFetched
    \/ PeerWake

SpecErrors == InitErrors /\ [][NextErrors]_vars

----------------------------------------------------------------------------
\* save_messages on its own (specification SpecMerge): a shard of today
\* with its index, and two batches merged into it one after the other by a
\* caller that loads the index and calls save_messages, as a cycle does.

\* The batches a fetch can return: distinct ids, newest first, content v.
Batches(v) == {NewestFirst(S, v) : S \in (SUBSET (1..MaxId)) \ {{}}}

\* A shard as save_messages leaves it: unique ids, ascending.
ShardsOf(v) == {SortById(NewestFirst(S, v)) : S \in SUBSET (1..MaxId)}

\* The index.json that goes with a single shard of the given day.
IndexFileOf(shard, day) ==
    IF shard = <<>> THEN <<>>
    ELSE save_index([NewIndex EXCEPT
            !.total_posts_archived = Len(shard),
            !.last_known_id = SetMax(Ids(shard)),
            !.min_known_id = SetMin(Ids(shard)),
            !.data_files = <<[filename |-> day, posts_count |-> Len(shard)]>>])

InitMerge ==
    /\ upstream = {}
    /\ last_posted = 0
    /\ today = 1
    /\ shutdown_requested = FALSE
    /\ monitor = [pc |-> "exit", index |-> NewIndex]
    /\ backfill = [pc |-> "exit", index |-> NewIndex]
    /\ \E shard \in ShardsOf(0), a \in Batches(1), b \in Batches(2) \cup Batches(1) :
        /\ shard_files = [d \in Days |-> IF d = 1 THEN shard ELSE <<>>]
        /\ index_file = IndexFileOf(shard, 1)
        /\ mg = [NoMerge EXCEPT !.first = a, !.second = b, !.shard0 = shard,
                                !.total_messages = Len(shard)]
    /\ NoFetch
    /\ fc = NoRun
    /\ gp = NoGaps
    /\ peer = NoPeer

\* index = load_index(...); save_messages(channel_path, first, index)
MergeFirst ==
    /\ mg.step = 0
    /\ LET saved == save_messages(load_index(index_file), shard_files, today,
                                  mg.first)
       IN /\ shard_files' = saved.shards
          /\ index_file' = save_index(saved.index)
          /\ mg' = [mg EXCEPT !.step = 1,
                              !.shard1 = saved.shards[today],
                              !.total1 = saved.index.total_posts_archived,
                              !.total_messages = saved.metadata.total_messages]
    /\ UNCHANGED <<worldVars, daemonVars, fetchVars, fc, gapVars, peerVars>>

\* index = load_index(...); save_messages(channel_path, second, index)
MergeSecond ==
    /\ mg.step = 1
    /\ LET saved == save_messages(load_index(index_file), shard_files, today,
                                  mg.second)
       IN /\ shard_files' = saved.shards
          /\ index_file' = save_index(saved.index)
          /\ mg' = [mg EXCEPT !.step = 2,
                              !.total_messages = saved.metadata.total_messages]
    /\ UNCHANGED <<worldVars, daemonVars, fetchVars, fc, gapVars, peerVars>>

NextMerge == MergeFirst \/ MergeSecond

SpecMerge == InitMerge /\ [][NextMerge]_vars

----------------------------------------------------------------------------
\* A monitor cycle whose process dies inside save_messages, between the
\* write of the shard and the write of index.json, and the first monitor
\* cycle of the process started after it (specification SpecCrash).  mg
\* holds the step reached and, as first and second, the batches of the two
\* cycles.

\* Before the crash: every message posted up to some moment is archived in
\* the shard of day 1, the index agrees with it, and the channel may have
\* posted more since.
InitCrash ==
    /\ \E n \in 0..MaxId, posted \in 0..MaxId :
        /\ n <= posted
        /\ last_posted = posted
        /\ upstream = 1..posted
        /\ shard_files = [d \in Days |->
              IF d = 1 THEN SortById(NewestFirst(1..n, 0)) ELSE <<>>]
        /\ index_file = IndexFileOf(shard_files[1], 1)
        /\ mg = [NoMerge EXCEPT !.shard0 = shard_files[1],
                                !.total_messages = n]
    /\ today = 1
    /\ shutdown_requested = FALSE
    /\ monitor = [pc |-> "exit", index |-> NewIndex]
    /\ backfill = [pc |-> "exit", index |-> NewIndex]
    /\ NoFetch
    /\ fc = NoRun
    /\ gp = NoGaps
    /\ peer = NoPeer

\* A monitor cycle fetches a batch; save_messages writes the shard and the
\* process dies before save_index is reached.
CrashAfterShardWrite ==
    /\ mg.step = 0
    /\ LET index == load_index(index_file)
           avail == NewAvailable(index.last_known_id)
       IN \E k \in 1..Len(avail) :
            LET saved == save_messages(index, shard_files, today,
                                       Prefix(avail, k))
            IN /\ shard_files' = saved.shards
               /\ mg' = [mg EXCEPT
                            !.step = 1,
                            !.first = Prefix(avail, k),
                            !.shard1 = saved.shards[today],
                            !.total_messages = saved.metadata.total_messages]
    /\ UNCHANGED <<worldVars, index_file, daemonVars, fetchVars, fc, gapVars,
                   peerVars>>

\* The channel and the calendar while the daemon is down.
PostWhileDown == mg.step = 1 /\ Post

DeleteWhileDown == mg.step = 1 /\ Delete

NextDayWhileDown == mg.step = 1 /\ NextDay

\* The daemon is started again; its first monitor cycle fetches everything
\* above last_known_id and saves it.
CycleAfterRestart ==
    /\ mg.step = 1
    /\ LET index == load_index(index_file)
           new_messages == NewAvailable(index.last_known_id)
           saved == save_messages(index, shard_files, today, new_messages)
       IN IF new_messages # <<>>
          THEN /\ shard_files' = saved.shards
               /\ index_file' = save_index(saved.index)
               /\ mg' = [mg EXCEPT
                            !.step = 2,
                            !.second = new_messages,
                            !.total_messages = saved.metadata.total_messages]
          ELSE /\ mg' = [mg EXCEPT !.step = 2]
               /\ UNCHANGED diskVars
    /\ UNCHANGED <<worldVars, daemonVars, fetchVars, fc, gapVars, peerVars>>

NextCrash ==
    \/ CrashAfterShardWrite
    \/ PostWhileDown
    \/ DeleteWhileDown
    \/ NextDayWhileDown
    \/ CycleAfterRestart

SpecCrash == InitCrash /\ [][NextCrash]_vars

----------------------------------------------------------------------------
\* The daemon started on an archive that holds the newest messages only
\* (left by a capped first fetch or by a fetch that returned a part), with
\* fetches that never fail and both loops running for ever (specification
\* SpecBackfill).

\* The archive holds the ids m..n in the shard of day 1, the channel holds
\* 1..n, the index agrees with the shard.
InitBackfill ==
    /\ \E n \in 1..MaxId, m \in 1..MaxId :
        /\ m <= n
        /\ last_posted = n
        /\ upstream = 1..n
        /\ shard_files = [d \in Days |->
              IF d = 1 THEN SortById(NewestFirst(m..n, 0)) ELSE <<>>]
        /\ index_file = IndexFileOf(shard_files[1], 1)
    /\ today = 1
    /\ shutdown_requested = FALSE
    /\ monitor = [pc |-> "top", index |-> NewIndex]
    /\ backfill = [pc |-> "top", index |-> NewIndex]
    /\ mg = NoMerge
    /\ NoFetch
    /\ fc = NoRun
    /\ gp = NoGaps
    /\ peer = NoPeer

\* fetch_new_messages returns every message above last_known_id.
MonitorFetchedAll ==
    /\ monitor.pc = "fetching"
    /\ LET avail == NewAvailable(monitor.index.last_known_id)
       IN \E k \in {Len(avail)} : MonitorReturns(Prefix(avail, k))

\* fetch_old_messages returns the BACKFILL_LIMIT messages below
\* min_known_id, or all there are.
BackfillFetchedAll ==
    /\ backfill.pc = "fetching"
    /\ LET avail == OldAvailable(backfill.index.min_known_id, BACKFILL_LIMIT)
       IN \E k \in {Len(avail)} : BackfillReturns(Prefix(avail, k))

NextBackfill ==
    \/ Post
    \/ NextDay
    \/ MonitorBegin
    \/ MonitorFetchedAll
    \/ MonitorWake
    \/ BackfillBegin
    \/ BackfillFetchedAll
    \/ BackfillWake

\* Every step of the two loops is taken in the end: a request is answered,
\* a sleep ends, the event loop resumes the task.  A fetch is pending
\* exactly when MonitorFetched (BackfillFetched) is enabled, and the only
\* steps of NextBackfill that end it are the complete fetches.
FairnessBackfill ==
    /\ WF_vars(MonitorBegin)
    /\ WF_vars(MonitorFetched)
    /\ WF_vars(MonitorWake)
    /\ WF_vars(BackfillBegin)
    /\ WF_vars(BackfillFetched)
    /\ WF_vars(BackfillWake)

SpecBackfill == InitBackfill /\ [][NextBackfill]_vars /\ FairnessBackfill

----------------------------------------------------------------------------
\* parser.py: fetch_messages_batch (specification SpecFetch).  An attempt is
\* one activation of the function: the iteration over client.iter_messages
\* up to its end or to the exception that interrupts it.

MaxLimit == 2     \* a caller's limit is None or 1..MaxLimit

max_retries == 3

\* e.seconds of a FloodWaitError.
WaitSeconds == {1, 5}

RECURSIVE Pow(_, _)
Pow(b, e) == IF e = 0 THEN 1 ELSE b * Pow(b, e - 1)

\* Mutant: the wait doubles with every retry.
ActualWaitDoubling(wait_seconds, retry_count) ==
    [num |-> wait_seconds * Pow(2, retry_count), den |-> 1]

\* wait_seconds * 1.5 ** retry_count, as the exact fraction num/den.
ActualWait(wait_seconds, retry_count) ==
    [num |-> wait_seconds * Pow(3, retry_count), den |-> Pow(2, retry_count)]

\* Mutant: > for >=, one retry more.
CanRetryOnceMore(retry_count) == ~(retry_count > max_retries)

\* not (retry_count >= max_retries)
CanRetry(retry_count) == ~(retry_count >= max_retries)

Frame(min_id, max_id, limit, retry_count) ==
    [min_id |-> min_id, max_id |-> max_id, limit |-> limit,
     retry_count |-> retry_count, messages_data |-> <<>>]

\* What client.iter_messages(**kwargs) yields: the ids strictly between the
\* bounds that are given, newest first, at most limit of them.
Available(f) ==
    LET S == {i \in upstream : /\ (f.min_id = None \/ i > f.min_id)
                               /\ (f.max_id = None \/ i < f.max_id)}
        all == NewestFirst(S, 0)
    IN  IF f.limit = None THEN all
        ELSE Prefix(all, IF Len(all) < f.limit THEN Len(all) ELSE f.limit)

\* The numbers of messages an interrupted iteration can have collected: the
\* exception comes from a request, which is made only while the limit is
\* not yet reached.
Interruptible(f) ==
    {k \in 0..Len(Available(f)) : f.limit = None \/ k < f.limit}

\* Mutant: the retry is given the caller's limit again.
RemainingLimitUnreduced(limit, n) ==
    IF limit # None /\ limit # 0 THEN limit ELSE None

\* limit - len(messages_data) if limit else None
RemainingLimit(limit, n) ==
    IF limit # None /\ limit # 0 THEN limit - n ELSE None

\* Mutant: the retry keeps both bounds of the interrupted attempt.
RetryFrameSameBounds(f, collected) ==
    IF collected = <<>>
    THEN Frame(f.min_id, f.max_id, f.limit, f.retry_count + 1)
    ELSE Frame(f.min_id, f.max_id,
               RemainingLimit(f.limit, Len(collected)), f.retry_count + 1)

\* The recursive call made after the wait, when messages were collected.
RetryFrame(f, collected) ==
    IF collected = <<>>
    THEN Frame(f.min_id, f.max_id, f.limit, f.retry_count + 1)
    ELSE IF f.max_id # None
    THEN Frame(f.min_id, SetMin(Ids(collected)),
               RemainingLimit(f.limit, Len(collected)), f.retry_count + 1)
    ELSE Frame(SetMax(Ids(collected)), f.max_id,
               RemainingLimit(f.limit, Len(collected)), f.retry_count + 1)

\* The innermost activation returns r: each waiting activation returns what
\* its recursive call returned, merged after its own messages_data when it
\* has some; an exception passes through all of them.
RECURSIVE Unwind(_, _)
Unwind(waiting, r) ==
    IF waiting = <<>> THEN r
    ELSE LET f == waiting[Len(waiting)]
             outer == SubSeq(waiting, 1, Len(waiting) - 1)
         IN  IF r.kind = "raise" \/ f.messages_data = <<>>
             THEN Unwind(outer, r)
             ELSE Unwind(outer, Returned(DictById(f.messages_data \o r.val)))

Top == frames[Len(frames)]
Waiting == SubSeq(frames, 1, Len(frames) - 1)

Logged(f, outcome, wait, collected) ==
    [min_id |-> f.min_id, max_id |-> f.max_id, limit |-> f.limit,
     retry_count |-> f.retry_count, outcome |-> outcome, wait |-> wait,
     collected |-> collected]

\* The iteration ends: return messages_data.
AttemptCompletes ==
    /\ frames # <<>>
    /\ LET collected == Available(Top)
       IN /\ ret' = Unwind(Waiting, Returned(collected))
          /\ attempts' = Append(attempts, Logged(Top, "ok", 0, collected))
    /\ frames' = <<>>
    /\ UNCHANGED <<worldVars, diskVars, daemonVars, mergeVars, fc, gapVars, peerVars,
                   call, sleeps>>

\* except FloodWaitError after k messages, e.seconds being one of waits:
\* return the messages when the retries are used up, else sleep and call
\* fetch_messages_batch again.
FloodWait(waits) ==
    /\ \E k \in Interruptible(Top), wait_seconds \in waits :
        LET collected == Prefix(Available(Top), k)
        IN /\ attempts' = Append(attempts,
                                 Logged(Top, "flood", wait_seconds, collected))
           /\ IF CanRetry(Top.retry_count)
              THEN /\ sleeps' = Append(sleeps,
                                  ActualWait(wait_seconds, Top.retry_count))
                   /\ frames' = Waiting
                          \o <<[Top EXCEPT !.messages_data = collected]>>
                          \o <<RetryFrame(Top, collected)>>
                   /\ ret' = ret
              ELSE /\ ret' = Unwind(Waiting, Returned(collected))
                   /\ frames' = <<>>
                   /\ sleeps' = sleeps
    /\ UNCHANGED <<worldVars, diskVars, daemonVars, mergeVars, fc, gapVars, peerVars,
                   call>>

AttemptFloodWait == frames # <<>> /\ FloodWait(WaitSeconds)

\* except Exception after k messages: return them, or raise when there are
\* none.
AttemptRaises ==
    /\ frames # <<>>
    /\ \E k \in Interruptible(Top) :
        LET collected == Prefix(Available(Top), k)
        IN /\ attempts' = Append(attempts, Logged(Top, "error", 0, collected))
           /\ ret' = Unwind(Waiting, IF collected # <<>>
                                     THEN Returned(collected) ELSE Raised)
    /\ frames' = <<>>
    /\ UNCHANGED <<worldVars, diskVars, daemonVars, mergeVars, fc, gapVars, peerVars,
                   call, sleeps>>

\* The arguments fetch_messages_batch is called with.
Bounds == {None} \cup (0..MaxId + 1)
Limits == {None} \cup (1..MaxLimit)

InitFetch ==
    /\ last_posted = MaxId
    /\ upstream \in SUBSET (1..MaxId)
    /\ today = 1
    /\ index_file = <<>>
    /\ shard_files = [d \in Days |-> <<>>]
    /\ shutdown_requested = FALSE
    /\ monitor = [pc |-> "exit", index |-> NewIndex]
    /\ backfill = [pc |-> "exit", index |-> NewIndex]
    /\ mg = NoMerge
    /\ \E lo \in Bounds, hi \in Bounds, limit \in Limits :
        /\ call = [min_id |-> lo, max_id |-> hi, limit |-> limit]
        /\ frames = <<Frame(lo, hi, limit, 0)>>
    /\ ret = NoRet
    /\ sleeps = <<>>
    /\ attempts = <<>>
    /\ fc = NoRun
    /\ gp = NoGaps
    /\ peer = NoPeer

NextFetch == AttemptCompletes \/ AttemptFloodWait \/ AttemptRaises

SpecFetch == InitFetch /\ [][NextFetch]_vars

----------------------------------------------------------------------------
\* parser.py: detect_gaps

\* sorted(S)
RECURSIVE Ascending(_)
Ascending(S) ==
    IF S = {} THEN <<>> ELSE <<SetMin(S)>> \o Ascending(S \ {SetMin(S)})

Elements(s) == {s[i] : i \in DOMAIN s}

\* Mutant: range(min_known_id, last_known_id), without the last id.
ExpectedIdsHalfOpen(min_known_id, last_known_id) ==
    min_known_id..(last_known_id - 1)

\* set(range(min_known_id, last_known_id + 1))
ExpectedIds(min_known_id, last_known_id) == min_known_id..last_known_id

\* The ids of the messages in the files index['data_files'] names.
ExistingIds(index, shards) ==
    UNION {Ids(shards[index.data_files[i].filename]) :
              i \in DOMAIN index.data_files}

\* Mutant: the ids already recorded as deleted are reported again.
detect_gaps_ignoring_known(index, shards) ==
    LET min_known_id == index.min_known_id
        last_known_id == index.last_known_id
    IN  IF \/ min_known_id = None \/ min_known_id = 0
           \/ last_known_id = None \/ last_known_id = 0
           \/ min_known_id >= last_known_id
        THEN <<>>
        ELSE LET missing_ids == ExpectedIds(min_known_id, last_known_id)
                                   \ ExistingIds(index, shards)
                 known_deleted == Elements(index.deleted_ids)
             IN  Ascending(missing_ids)

detect_gaps(index, shards) ==
    LET min_known_id == index.min_known_id
        last_known_id == index.last_known_id
    IN  IF \/ min_known_id = None \/ min_known_id = 0
           \/ last_known_id = None \/ last_known_id = 0
           \/ min_known_id >= last_known_id
        THEN <<>>
        ELSE LET missing_ids == ExpectedIds(min_known_id, last_known_id)
                                   \ ExistingIds(index, shards)
                 known_deleted == Elements(index.deleted_ids)
             IN  Ascending(missing_ids \ known_deleted)

----------------------------------------------------------------------------
\* detect_gaps on its own (specification SpecGaps): an index and the shards
\* of two days, each id stored in one of them or in none.

GapDays == {1, 2}

InitGaps ==
    /\ upstream = {}
    /\ last_posted = 0
    /\ today = 1
    /\ shutdown_requested = FALSE
    /\ monitor = [pc |-> "exit", index |-> NewIndex]
    /\ backfill = [pc |-> "exit", index |-> NewIndex]
    /\ mg = NoMerge
    /\ NoFetch
    /\ fc = NoRun
    /\ gp = NoGaps
    /\ peer = NoPeer
    /\ \E where \in [1..MaxId -> GapDays \cup {0}],
          files \in SUBSET GapDays,
          deleted \in SUBSET (1..MaxId),
          lo \in {None} \cup (1..MaxId),
          hi \in 0..MaxId :
        /\ shard_files = [d \in Days |->
              SortById(NewestFirst({i \in 1..MaxId : where[i] = d}, 0))]
        /\ index_file = save_index([NewIndex EXCEPT
              !.min_known_id = lo,
              !.last_known_id = hi,
              !.data_files = [k \in 1..Cardinality(files) |->
                   [filename |-> Ascending(files)[k],
                    posts_count |-> Len(shard_files[Ascending(files)[k]])]],
              !.deleted_ids = Ascending(deleted),
              !.deleted_count = Cardinality(deleted)])

\* new_deleted_ids = detect_gaps(channel_path, index)
RunDetectGaps ==
    /\ gp.step = 0
    /\ gp' = [step |-> 1,
              result |-> detect_gaps(load_index(index_file), shard_files)]
    /\ UNCHANGED <<worldVars, diskVars, daemonVars, mergeVars, fetchVars, fc,
                   peerVars>>

NextGaps == RunDetectGaps

SpecGaps == InitGaps /\ [][NextGaps]_vars

----------------------------------------------------------------------------
\* parser.py: fetch_channel, run again and again (specification SpecOneShot).
\* The channel and the date change between two runs.

MaxPosted == 4    \* the channel assigns the ids 1..MaxPosted

\* INITIAL_FETCH_LIMIT (environment, default 5000), scaled to the model.
INITIAL_FETCH_LIMIT == 2

\* A call of fetch_messages_batch begins.
StartCall(f) ==
    /\ call' = [min_id |-> f.min_id, max_id |-> f.max_id, limit |-> f.limit]
    /\ frames' = <<f>>
    /\ ret' = NoRet
    /\ sleeps' = <<>>
    /\ attempts' = <<>>

\* The call's result is used up.
EndCall ==
    /\ call' = [min_id |-> None, max_id |-> None, limit |-> None]
    /\ frames' = <<>>
    /\ ret' = NoRet
    /\ sleeps' = <<>>
    /\ attempts' = <<>>

\* Step 1 of fetch_channel: the forward call.
ForwardFrame(index) ==
    IF index.last_known_id = 0
    THEN IF INITIAL_FETCH_LIMIT > 0
         THEN Frame(None, None, INITIAL_FETCH_LIMIT, 0)
         ELSE Frame(None, None, None, 0)
    ELSE Frame(index.last_known_id, None, None, 0)

\* Step 2 of fetch_channel: the backward call.
BackwardFrame(index) ==
    Frame(None, index.min_known_id,
          IF INITIAL_FETCH_LIMIT > 0 THEN INITIAL_FETCH_LIMIT ELSE 1000, 0)

\* fetch_channel from "Sort messages by ID" to save_index, for a non-empty
\* all_new_messages: the shard and the index it writes.
archive(index, shards, day, all_new_messages) ==
    LET messages == SortById(all_new_messages)
        min_id_in_batch == SetMin(Ids(messages))
        max_id_in_batch == SetMax(Ids(messages))
        unique == MergeMessages(shards[day], messages)
        written == [shards EXCEPT ![day] = unique]
        updated ==
            [index EXCEPT
                !.total_posts_archived = @ + Len(all_new_messages),
                !.last_known_id = IF max_id_in_batch > @ THEN max_id_in_batch
                                  ELSE @,
                !.min_known_id = IF @ = None THEN min_id_in_batch
                                 ELSE IF min_id_in_batch < @
                                 THEN min_id_in_batch ELSE @,
                !.data_files = PutFileInfo(@, [filename |-> day,
                                               posts_count |-> Len(unique)])]
        new_deleted_ids == detect_gaps(updated, written)
    IN  [index |-> IF new_deleted_ids # <<>>
                   THEN [updated EXCEPT
                           !.deleted_ids = @ \o new_deleted_ids,
                           !.deleted_count =
                               Len(updated.deleted_ids \o new_deleted_ids)]
                   ELSE updated,
         shards |-> written]

\* The rest of fetch_channel once both fetches are done.  outcomes says how
\* save_index can end: "written", or "cut off" when the process dies or the
\* write fails inside it.
Finish(index, all_new_messages, outcomes) ==
    /\ IF all_new_messages = <<>>
       THEN UNCHANGED diskVars
       ELSE LET saved == archive(index, shard_files, today, all_new_messages)
            IN /\ shard_files' = saved.shards
               /\ \E o \in outcomes :
                     index_file' = IF o = "written"
                                   THEN save_index(saved.index)
                                   ELSE save_index_cut_off(saved.index)
    /\ fc' = NoRun
    /\ EndCall

\* fetch_channel up to the forward call's first request.
FetchChannelStart ==
    /\ fc.pc = "idle"
    /\ LET index == load_index(index_file)
       IN /\ fc' = [fc EXCEPT !.pc = "forward", !.index = index]
          /\ StartCall(ForwardFrame(index))
    /\ UNCHANGED <<worldVars, diskVars, daemonVars, mergeVars, gapVars, peerVars>>

\* The forward call is over: the backward call begins, or the run goes on
\* to its end.  An exception of the call ends the process.
ForwardDone(outcomes) ==
    /\ ret.kind # "none"
    /\ IF ret.kind = "raise"
       THEN /\ fc' = NoRun
            /\ EndCall
            /\ UNCHANGED diskVars
       ELSE IF /\ fc.index.min_known_id # None /\ fc.index.min_known_id # 0
               /\ fc.index.min_known_id > 1
       THEN /\ fc' = [fc EXCEPT !.pc = "backward", !.forward = ret.val]
            /\ StartCall(BackwardFrame(fc.index))
            /\ UNCHANGED diskVars
       ELSE Finish(fc.index, ret.val, outcomes)
    /\ UNCHANGED <<worldVars, daemonVars, mergeVars, gapVars, peerVars>>

FetchChannelForwardDone == fc.pc = "forward" /\ ForwardDone({"written"})

\* The backward call is over.
BackwardDone(outcomes) ==
    /\ ret.kind # "none"
    /\ IF ret.kind = "raise"
       THEN /\ fc' = NoRun
            /\ EndCall
            /\ UNCHANGED diskVars
       ELSE Finish(fc.index, fc.forward \o ret.val, outcomes)
    /\ UNCHANGED <<worldVars, daemonVars, mergeVars, gapVars, peerVars>>

FetchChannelBackwardDone == fc.pc = "backward" /\ BackwardDone({"written"})

\* The channel gains a message between two runs.
PostBetweenRuns ==
    /\ fc.pc = "idle"
    /\ last_posted < MaxPosted
    /\ last_posted' = last_posted + 1
    /\ upstream' = upstream \cup {last_posted + 1}
    /\ UNCHANGED <<today, diskVars, daemonVars, mergeVars, fetchVars, fc,
                   gapVars, peerVars>>

DeleteBetweenRuns == fc.pc = "idle" /\ Delete

NextDayBetweenRuns == fc.pc = "idle" /\ NextDay

\* A FloodWaitError during a run.  How long the server asks to wait changes
\* the sleep only, not what is fetched: one length stands for all.
FloodWaitInRun == frames # <<>> /\ FloodWait({5})

InitOneShot == Init

NextOneShot ==
    \/ PostBetweenRuns
    \/ DeleteBetweenRuns
    \/ NextDayBetweenRuns
    \/ FetchChannelStart
    \/ AttemptCompletes
    \/ FloodWaitInRun
    \/ AttemptRaises
    \/ FetchChannelForwardDone
    \/ FetchChannelBackwardDone

SpecOneShot == InitOneShot /\ [][NextOneShot]_vars

----------------------------------------------------------------------------
\* fetch_channel run again and again, a run's save_index being either
\* completed or cut off (specification SpecCutOff).

SaveOutcomes == {"written", "cut off"}

ForwardDoneOrCutOff == fc.pc = "forward" /\ ForwardDone(SaveOutcomes)

BackwardDoneOrCutOff == fc.pc = "backward" /\ BackwardDone(SaveOutcomes)

InitCutOff == Init

NextCutOff ==
    \/ PostBetweenRuns
    \/ DeleteBetweenRuns
    \/ NextDayBetweenRuns
    \/ FetchChannelStart
    \/ AttemptCompletes
    \/ FloodWaitInRun
    \/ AttemptRaises
    \/ ForwardDoneOrCutOff
    \/ BackwardDoneOrCutOff

SpecCutOff == InitCutOff /\ [][NextCutOff]_vars

----------------------------------------------------------------------------
\* load_index as the three loops call it (specification SpecLoad): the
\* channel directory holds a shard and an index.json that is absent,
\* complete, or cut off by an earlier save_index.

IndexFiles(shard) ==
    {<<>>, IndexFileOf(shard, 1)}
        \cup {save_index_cut_off(IndexFileOf(s, 1)[1]) :
                 s \in {s \in {shard} : s # <<>>}}

InitLoad ==
    /\ last_posted = MaxId
    /\ upstream \in SUBSET (1..MaxId)
    /\ today = 1
    /\ shutdown_requested \in BOOLEAN
    /\ monitor = [pc |-> "top", index |-> NewIndex]
    /\ backfill = [pc |-> "top", index |-> NewIndex]
    /\ \E shard \in ShardsOf(0) :
        /\ shard_files = [d \in Days |-> IF d = 1 THEN shard ELSE <<>>]
        /\ index_file \in IndexFiles(shard)
    /\ mg = NoMerge
    /\ NoFetch
    /\ fc = NoRun
    /\ gp = NoGaps
    /\ peer = NoPeer

NextLoad == MonitorBegin \/ BackfillBegin \/ FetchChannelStart

SpecLoad == InitLoad /\ [][NextLoad]_vars

----------------------------------------------------------------------------
\* What is persisted for the channel.

Persisted == load_index(index_file)

StoredIds == UNION {Ids(shard_files[d]) : d \in Days}

\* A task is in its critical section from its load_index to the end of the
\* cycle that used the loaded index: while it is suspended in its fetch.
InCycle(task) == task.pc \in {"fetching", "flood_sleep"}

----------------------------------------------------------------------------
\* C1: for one source the critical sections of the monitor loop and of the
\* backfill loop (load index, fetch, merge, persist index) never overlap:
\* the two tasks are never both between their index load and their index
\* write.
C1_CriticalSectionsDisjoint ==
    ~(InCycle(monitor) /\ InCycle(backfill))

\* C2: in the persisted index last_known_id never decreases and
\* min_known_id, once set, is never unset and never increases, whatever the
\* interleaving of the two loops.
C2_CursorsMonotonic ==
    [][/\ Persisted'.last_known_id >= Persisted.last_known_id
       /\ Persisted.min_known_id # None =>
             /\ Persisted'.min_known_id # None
             /\ Persisted'.min_known_id <= Persisted.min_known_id]_vars

\* C3: the persisted total_posts_archived is the number of distinct ids
\* stored in the shards of the source, it never decreases, and a step adds
\* to it the number of ids that were not stored before.
C3_TotalCountsStoredIds ==
    /\ [](Persisted.total_posts_archived = Cardinality(StoredIds))
    /\ [][/\ Persisted'.total_posts_archived >= Persisted.total_posts_archived
          /\ Persisted'.total_posts_archived - Persisted.total_posts_archived
                = Cardinality(StoredIds' \ StoredIds)]_vars

\* The record of list s with the given id.
RecordOf(s, i) == s[CHOOSE k \in DOMAIN s : s[k].id = i]

\* C5: merging is idempotent: after the same batch was merged twice into
\* the shard of the same source and date, the shard is what it was after
\* the first merge, and the second merge added 0 to total_posts_archived.
C5_MergeIdempotent ==
    (mg.step = 2 /\ mg.second = mg.first) =>
        /\ shard_files[today] = mg.shard1
        /\ Persisted.total_posts_archived = mg.total1

\* The same batch was merged twice into a shard that held some of its ids
\* and some others.
C5_Witness ==
    /\ mg.step = 2
    /\ mg.second = mg.first
    /\ Ids(mg.shard0) \cap Ids(mg.first) # {}
    /\ Ids(mg.shard0) \ Ids(mg.first) # {}
    /\ Ids(mg.first) \ Ids(mg.shard0) # {}

\* C6: after batch A and then batch B were merged into the same shard, the
\* shard holds each id of the old shard, of A and of B once and no other;
\* an id of B is stored as B has it, an id of A that is not in B as A has
\* it, and an id of neither as the shard had it.
C6_MergeIsUnionLastWins ==
    mg.step = 2 =>
        LET stored == shard_files[today] IN
        /\ Ids(stored) = Ids(mg.shard0) \cup Ids(mg.first) \cup Ids(mg.second)
        /\ Len(stored) = Cardinality(Ids(stored))
        /\ \A k \in DOMAIN stored :
              stored[k] =
                 IF stored[k].id \in Ids(mg.second)
                 THEN RecordOf(mg.second, stored[k].id)
                 ELSE IF stored[k].id \in Ids(mg.first)
                 THEN RecordOf(mg.first, stored[k].id)
                 ELSE RecordOf(mg.shard0, stored[k].id)

\* Two different batches that share an id were merged into a shard that
\* held that id and an id of neither batch.
C6_Witness ==
    /\ mg.step = 2
    /\ mg.second # mg.first
    /\ Ids(mg.first) \cap Ids(mg.second) \cap Ids(mg.shard0) # {}
    /\ Ids(mg.first) \ Ids(mg.second) # {}
    /\ Ids(mg.shard0) \ (Ids(mg.first) \cup Ids(mg.second)) # {}
    /\ \E k \in DOMAIN mg.second : mg.second[k].ver = 2

\* C4: no record is lost by a rate-limited forward fetch: when a call with a
\* lower bound, no upper bound and no limit is interrupted once by a rate
\* limit after it collected some records, and the retry completes, the
\* returned batch holds every upstream id above the lower bound.
C4_ForwardFetchLosesNothing ==
    (/\ ret.kind = "value"
     /\ call.min_id # None /\ call.max_id = None /\ call.limit = None
     /\ Len(attempts) = 2
     /\ attempts[1].outcome = "flood" /\ attempts[1].collected # <<>>
     /\ attempts[2].outcome = "ok")
    => Ids(ret.val) = {i \in upstream : i > call.min_id}

\* C9: one call makes at most 4 attempts (3 retries, each after one sleep);
\* when the fourth attempt is rate-limited too, the call is over, raises
\* nothing and returns the records collected over all four attempts.
C9_AtMostThreeRetries ==
    /\ Len(attempts) <= 4
    /\ Len(sleeps) <= 3
    /\ (Len(attempts) = 4 /\ attempts[4].outcome = "flood") =>
          /\ frames = <<>>
          /\ ret.kind = "value"
          /\ Ids(ret.val) = UNION {Ids(attempts[i].collected) : i \in 1..4}

\* All four attempts were rate-limited, and two of them had collected
\* records.
C9_Witness ==
    /\ Len(attempts) = 4
    /\ attempts[4].outcome = "flood"
    /\ ret.kind = "value"
    /\ \E i, j \in 1..4 : /\ i < j
                          /\ attempts[i].collected # <<>>
                          /\ attempts[j].collected # <<>>

\* The sleeps before retry 1, 2 and 3 under a wait of 5 seconds: 5.0, 7.5
\* and 11.25.
FiveSecondSleeps ==
    <<[num |-> 5, den |-> 1], [num |-> 15, den |-> 2], [num |-> 45, den |-> 4]>>

\* C10: the call sleeps once after each rate-limited attempt among its first
\* three and never otherwise; its k-th sleep lasts w * 1.5^(k-1) for the
\* wait w of the k-th attempt's rate-limit signal: 5.0, 7.5 and 11.25
\* seconds for w = 5.
C10_BackoffSleeps ==
    /\ Len(sleeps) = Cardinality({i \in DOMAIN attempts :
                                    attempts[i].outcome = "flood" /\ i <= 3})
    /\ \A k \in DOMAIN sleeps :
          /\ k <= 3
          /\ attempts[k].outcome = "flood"
          /\ sleeps[k].num * Pow(2, k - 1)
                = attempts[k].wait * Pow(3, k - 1) * sleeps[k].den
          /\ attempts[k].wait = 5 =>
                sleeps[k].num * FiveSecondSleeps[k].den
                   = FiveSecondSleeps[k].num * sleeps[k].den

\* Four attempts were rate-limited with a wait of 5 seconds: three sleeps,
\* and none after the fourth.
C10_Witness ==
    /\ Len(attempts) = 4
    /\ \A i \in 1..4 : attempts[i].outcome = "flood" /\ attempts[i].wait = 5
    /\ Len(sleeps) = 3
    /\ ret.kind = "value"

\* C7: detect_gaps returns, in ascending order, exactly the ids from
\* min_known_id to last_known_id that are in no shard the index lists and not
\* in the deleted ids already recorded; it returns the empty list when
\* min_known_id or last_known_id is unknown or min_known_id >= last_known_id.
\* For the span 10..20 with 10, 11, 13, 14, 16, 18, 20 stored it returns
\* 12, 15, 17, 19, and 12, 17, 19 once 15 is stored too.
C7_DetectGapsExact ==
    LET index == Persisted
        lo == index.min_known_id
        hi == index.last_known_id
        listed == {index.data_files[i].filename : i \in DOMAIN index.data_files}
        stored == UNION {Ids(shard_files[d]) : d \in listed}
        recorded == {index.deleted_ids[i] : i \in DOMAIN index.deleted_ids}
        unknown == lo = None \/ lo = 0 \/ hi = None \/ hi = 0
        span(a, b, ids) ==
            [NewIndex EXCEPT
                !.min_known_id = a, !.last_known_id = b,
                !.data_files = <<[filename |-> 1,
                                  posts_count |-> Cardinality(ids)]>>]
        shard(ids) == [d \in Days |-> IF d = 1 THEN SortById(NewestFirst(ids, 0))
                                      ELSE <<>>]
    IN  /\ gp.step = 1 =>
            /\ {gp.result[i] : i \in DOMAIN gp.result} =
                  IF unknown \/ lo >= hi THEN {}
                  ELSE {i \in lo..hi : i \notin stored /\ i \notin recorded}
            /\ \A i, j \in DOMAIN gp.result : i < j => gp.result[i] < gp.result[j]
        /\ detect_gaps(span(10, 20, {10, 11, 13, 14, 16, 18, 20}),
                       shard({10, 11, 13, 14, 16, 18, 20})) = <<12, 15, 17, 19>>
        /\ detect_gaps(span(10, 20, {10, 11, 13, 14, 15, 16, 18, 20}),
                       shard({10, 11, 13, 14, 15, 16, 18, 20})) = <<12, 17, 19>>

\* detect_gaps has run on a span with a stored id, a recorded deleted id that
\* is not stored, and a missing id it returns.
C7_Witness ==
    /\ gp.step = 1
    /\ gp.result # <<>>
    /\ Persisted.min_known_id # None
    /\ \E i \in Persisted.min_known_id..Persisted.last_known_id :
          /\ i \in {Persisted.deleted_ids[k] : k \in DOMAIN Persisted.deleted_ids}
          /\ i \notin StoredIds
    /\ \E i \in Persisted.min_known_id..Persisted.last_known_id :
          /\ i \in Ids(shard_files[2])
          /\ \E k \in DOMAIN Persisted.data_files :
                Persisted.data_files[k].filename = 2

\* C8: the deleted set only grows: an id in the deleted ids of the index that
\* is persisted is in the deleted ids of the index persisted after any later
\* step.
C8_DeletedOnlyGrows ==
    [][\A i \in {Persisted.deleted_ids[k] : k \in DOMAIN Persisted.deleted_ids} :
          i \in {Persisted'.deleted_ids[k] : k \in DOMAIN Persisted'.deleted_ids}]_vars

\* A deleted id is recorded and the index was written again afterwards: the
\* first day's shard holds 1 and 3, a later day's shard holds 4.
C8_RecordedThenWrittenAgain ==
    /\ Persisted.deleted_ids = <<2>>
    /\ Ids(shard_files[1]) = {1, 3}
    /\ Ids(shard_files[2]) = {4}
    /\ Persisted.last_known_id = 4

\* C11: when a failure other than a rate limit interrupts a call after some
\* record was collected by the call, in the failing attempt or in an earlier
\* attempt, the call returns the collected records and raises nothing; it
\* raises only when no attempt collected any record.
C11_ErrorReturnsCollected ==
    (/\ frames = <<>>
     /\ attempts # <<>>
     /\ attempts[Len(attempts)].outcome = "error")
    => IF \E i \in DOMAIN attempts : attempts[i].collected # <<>>
       THEN /\ ret.kind = "value"
            /\ Ids(ret.val)
                 = UNION {Ids(attempts[i].collected) : i \in DOMAIN attempts}
       ELSE ret.kind = "raise"

\* A call collected records, was rate-limited, and its retry failed.
C11_Witness ==
    /\ frames = <<>>
    /\ Len(attempts) = 2
    /\ attempts[1].outcome = "flood" /\ attempts[1].collected # <<>>
    /\ attempts[2].outcome = "error"

\* The zero-value index.
ZeroValueIndex ==
    [total_posts_archived |-> 0, last_known_id |-> 0, min_known_id |-> None,
     last_backfill |-> None, data_files |-> <<>>, deleted_ids |-> <<>>,
     deleted_count |-> 0]

\* C12: load_index returns the zero-value index (total 0, last_known_id 0,
\* min_known_id null, no data files, no deleted ids) whenever index.json is
\* absent or does not parse; the calling cycle goes on with that index, and
\* the load leaves the index file and the shards as they are.
C12_LoadIndexZeroValue ==
    /\ [](Len(index_file) # 1 =>
            /\ load_index(index_file) = ZeroValueIndex
            /\ monitor.pc = "fetching" => monitor.index = ZeroValueIndex
            /\ fc.pc = "forward" =>
                  /\ fc.index = ZeroValueIndex
                  /\ frames = <<ForwardFrame(ZeroValueIndex)>>
            /\ backfill.pc \in {"top", "sleeping", "exit"})
    /\ [][/\ shard_files' = shard_files
          /\ index_file' = index_file
          /\ (~shutdown_requested /\ monitor.pc = "top"
                /\ monitor'.pc # "top") => monitor'.pc = "fetching"
          /\ (~shutdown_requested /\ backfill.pc = "top"
                /\ backfill'.pc # "top" /\ Len(index_file) # 1)
                => backfill'.pc = "sleeping"]_vars

\* index.json is cut off while a shard holds records, and the monitor loop and
\* fetch_channel have loaded it.
C12_Witness ==
    /\ Len(index_file) = 2
    /\ index_file[1].last_known_id > 0
    /\ StoredIds # {}
    /\ monitor.pc = "fetching"
    /\ fc.pc = "forward"
    /\ backfill.pc = "sleeping"

\* C13: save_index is atomic with respect to crashes: whatever happens
\* during a save, index.json holds a complete document afterwards, and
\* load_index never reads the zero-value index where an index had been
\* saved before.
C13_SaveIndexAtomic ==
    /\ [](Len(index_file) <= 1)
    /\ [][load_index(index_file) # ZeroValueIndex
             => load_index(index_file') # ZeroValueIndex]_vars

\* A save_index was cut off over an index saved by an earlier run.
C13_CutOffOverSavedIndex ==
    /\ Len(index_file) = 2
    /\ index_file[1].total_posts_archived > Len(shard_files[today])

\* C14: a monitor cycle of the daemon that starts with last_known_id = 0
\* fetches with the limit INITIAL_FETCH_LIMIT when that is > 0: it never
\* stores more records than INITIAL_FETCH_LIMIT in that first cycle.
C14_FirstMonitorCycleCapped ==
    [][(/\ monitor.pc = "fetching"
        /\ monitor.index.last_known_id = 0
        /\ monitor'.pc = "sleeping"
        /\ INITIAL_FETCH_LIMIT > 0)
       => Cardinality(StoredIds' \ StoredIds) <= INITIAL_FETCH_LIMIT]_vars

\* The first monitor cycle of a new channel has stored records.
C14_FirstCycleStored ==
    /\ monitor.pc = "sleeping"
    /\ Persisted.total_posts_archived = Cardinality(StoredIds)
    /\ Cardinality(StoredIds) > INITIAL_FETCH_LIMIT
    /\ Persisted.last_backfill = None
    /\ Persisted.min_known_id = 1

\* C15: every monitor cycle that merges records runs gap detection before it
\* persists the index: after the cycle each id from min_known_id to
\* last_known_id that is in no shard is in the deleted ids of the persisted
\* index.
C15_MonitorCycleDetectsGaps ==
    [][(/\ monitor.pc = "fetching"
        /\ monitor'.pc = "sleeping"
        /\ StoredIds' # StoredIds)
       => \A i \in Persisted'.min_known_id..Persisted'.last_known_id :
             i \notin StoredIds' => i \in Elements(Persisted'.deleted_ids)]_vars

\* A monitor cycle has merged records around an id that upstream deleted.
C15_GapAfterMonitorCycle ==
    /\ monitor.pc = "sleeping"
    /\ backfill.pc = "top"
    /\ Persisted.last_backfill = None
    /\ StoredIds = {1, 3}
    /\ upstream = {1, 3}
    /\ Persisted.min_known_id = 1 /\ Persisted.last_known_id = 3

\* C16: a backfill cycle that reads min_known_id as unset or <= 1 performs
\* no fetch and writes neither the index nor a shard, it only sleeps; the
\* backfill loop issues a fetch only when min_known_id > 1.
C16_BackfillNoOpAtBeginning ==
    [][(backfill.pc = "top" /\ backfill'.pc # "top" /\ ~shutdown_requested)
       => IF Persisted.min_known_id = None \/ Persisted.min_known_id <= 1
          THEN /\ backfill'.pc = "sleeping"
               /\ index_file' = index_file
               /\ shard_files' = shard_files
          ELSE /\ backfill'.pc = "fetching"
               /\ backfill'.index.min_known_id > 1]_vars

\* The backfill loop sleeps after a cycle that found min_known_id = 1.
C16_Witness ==
    /\ backfill.pc = "sleeping"
    /\ monitor.pc = "sleeping"
    /\ Persisted.min_known_id = 1
    /\ Persisted.last_backfill = None
    /\ Persisted.last_known_id = 2
    /\ last_posted = 2

\* C17: a backfill cycle that starts with min_known_id = L > 1, while
\* upstream holds the ids 1..L-1 without gaps and nothing fails, fetches below
\* L with the limit BACKFILL_LIMIT and afterwards has stored exactly the ids
\* max(1, L - BACKFILL_LIMIT)..L-1, with min_known_id = max(1, L -
\* BACKFILL_LIMIT), last_known_id as the cycle read it and
\* total_posts_archived increased by the number of those ids.
C17_BackfillCycleEffect ==
    [][(/\ backfill.pc = "fetching"
        /\ backfill.index.min_known_id > 1
        /\ 1..(backfill.index.min_known_id - 1) \subseteq upstream
        /\ BackfillReturns(OldAvailable(backfill.index.min_known_id,
                                        BACKFILL_LIMIT)))
       => LET L == backfill.index.min_known_id
              low == IF L - BACKFILL_LIMIT > 1 THEN L - BACKFILL_LIMIT ELSE 1
          IN /\ low..(L - 1) \subseteq Ids(shard_files'[today])
             /\ StoredIds' \ StoredIds \subseteq low..(L - 1)
             /\ Persisted'.min_known_id = low
             /\ Persisted'.last_known_id = backfill.index.last_known_id
             /\ Persisted'.total_posts_archived
                  = backfill.index.total_posts_archived + (L - low)]_vars

\* A backfill cycle has fetched the two ids below min_known_id = 3.
C17_Witness ==
    /\ backfill.pc = "sleeping"
    /\ Persisted.last_backfill # None
    /\ StoredIds = {1, 2, 3}
    /\ Persisted.min_known_id = 1
    /\ Persisted.total_posts_archived = 3
    /\ Len(Persisted.data_files) = 2

\* C18: a monitor cycle whose fetch returns no records changes nothing
\* persisted: index.json (total, last_known_id, min_known_id, data files,
\* deleted ids) and every shard are after the cycle what they were before
\* it, when upstream has nothing new and when the fetch fails before its
\* first record.
C18_EmptyMonitorCycleWritesNothing ==
    [][(/\ monitor.pc = "fetching"
        /\ monitor'.pc = "sleeping"
        /\ \/ NewAvailable(monitor.index.last_known_id) = <<>>
           \/ MonitorReturns(<<>>))
       => /\ index_file' = index_file
          /\ shard_files' = shard_files]_vars

\* The monitor loop sleeps with nothing new upstream on the second day,
\* after a backfill.
C18_Witness ==
    /\ monitor.pc = "sleeping"
    /\ upstream = {1, 2}
    /\ last_posted = 2
    /\ StoredIds = {1, 2}
    /\ Persisted.last_known_id = 2
    /\ Persisted.last_backfill # None
    /\ today = 2

\* C19: cancellation is cooperative and checked at the top of every
\* iteration: a loop starts a cycle only when the shutdown flag is clear at
\* that check; with the flag set a loop leaves only from the top of an
\* iteration, so a cycle in flight goes on to its sleep, and at its next
\* check the loop exits without starting another cycle, for good.
C19_CooperativeCancellation ==
    [][/\ (monitor.pc = "top" /\ monitor'.pc \notin {"top", "exit"})
            => ~shutdown_requested /\ monitor'.pc = "fetching"
       /\ (backfill.pc = "top" /\ backfill'.pc \notin {"top", "exit"})
            => ~shutdown_requested /\ backfill'.pc \in {"fetching", "sleeping"}
       /\ (monitor.pc # "exit" /\ monitor'.pc = "exit")
            => shutdown_requested /\ monitor.pc = "top"
       /\ (backfill.pc # "exit" /\ backfill'.pc = "exit")
            => shutdown_requested /\ backfill.pc = "top"
       /\ (shutdown_requested /\ monitor.pc = "top" /\ monitor' # monitor)
            => monitor'.pc = "exit"
       /\ (shutdown_requested /\ backfill.pc = "top" /\ backfill' # backfill)
            => backfill'.pc = "exit"
       /\ monitor.pc = "exit" => monitor'.pc = "exit"
       /\ backfill.pc = "exit" => backfill'.pc = "exit"
       /\ (shutdown_requested /\ monitor.pc = "fetching" /\ monitor' # monitor)
            => monitor'.pc \in {"sleeping", "flood_sleep"}
       /\ (shutdown_requested /\ backfill.pc = "fetching"
             /\ backfill' # backfill) => backfill'.pc = "sleeping"]_vars

\* The flag is set, the monitor loop has exited at its check, and the
\* backfill cycle that was in flight has stored its records and sleeps.
C19_Witness ==
    /\ shutdown_requested
    /\ monitor.pc = "exit"
    /\ backfill.pc = "sleeping"
    /\ Persisted.last_backfill = today
    /\ Persisted.min_known_id = 1
    /\ upstream = {1, 2, 3}

\* C20: when a cycle of a monitor or backfill loop fails with an error (in
\* the index load, the merge or a write; a fetch returns what it has), that
\* loop neither terminates nor retries at once: it goes to its sleep between
\* cycles and starts its next cycle after it; a loop ends only on shutdown.
\* The loop of the other channel keeps taking its steps, and no step of the
\* failing channel's loops touches that channel's index or shards.
C20_FailedCycleSleeps ==
    /\ [](/\ monitor.pc = "exit" => shutdown_requested
          /\ backfill.pc = "exit" => shutdown_requested
          /\ peer.pc = "exit" => shutdown_requested
          /\ peer.pc # "exit" => ENABLED (PeerBegin \/ PeerFetched \/ PeerWake))
    /\ [][/\ (MonitorLoadFails \/ MonitorSaveFails) => monitor'.pc = "sleeping"
          /\ (BackfillLoadFails \/ BackfillSaveFails)
                => backfill'.pc = "sleeping"
          /\ (monitor.pc = "sleeping" /\ monitor' # monitor)
                => monitor'.pc = "top"
          /\ (backfill.pc = "sleeping" /\ backfill' # backfill)
                => backfill'.pc = "top"
          /\ (MonitorLoadFails \/ MonitorSaveFails \/ BackfillLoadFails
                \/ BackfillSaveFails \/ monitor' # monitor
                \/ backfill' # backfill \/ index_file' # index_file
                \/ shard_files' # shard_files) => peer' = peer]_vars

\* A monitor cycle failed while it wrote index.json and its loop sleeps; the
\* second channel's loop has stored a record since and is in a new cycle.
C20_Witness ==
    /\ monitor.pc = "sleeping"
    /\ Len(index_file) = 2
    /\ ~shutdown_requested
    /\ StoredIds = {1, 2}
    /\ backfill.pc = "sleeping"
    /\ peer.pc = "fetching"
    /\ peer.index.last_known_id = 1

----------------------------------------------------------------------------
\* C21: in every persisted index, whenever min_known_id (lowest_id) is not
\* None, min_known_id <= last_known_id (highest_id), after any sequence of
\* monitor and backfill cycles and under any interleaving of the two loops.
C21_LowestAtMostHighest ==
    Persisted.min_known_id # None =>
        Persisted.min_known_id <= Persisted.last_known_id

\* Both loops have written the index, on two days, and the two cursors
\* differ.
C21_Witness ==
    /\ Persisted.min_known_id # None
    /\ Persisted.last_backfill # None
    /\ Len(Persisted.data_files) = 2
    /\ Persisted.min_known_id < Persisted.last_known_id

----------------------------------------------------------------------------
\* The number of messages the attempts collected, all attempts together.
RECURSIVE CollectedInAll(_)
CollectedInAll(log) ==
    IF log = <<>> THEN 0
    ELSE Len(log[Len(log)].collected)
            + CollectedInAll(SubSeq(log, 1, Len(log) - 1))

\* C22: the batch fetch_messages_batch(min_id, max_id, limit) returns
\* respects the request also when the call went through rate-limit retries:
\* every returned id is above min_id and below max_id, for each bound that
\* was given, and when limit is given the number of records returned, and
\* the number collected by all attempts together, is at most limit.
C22_ReturnedBatchRespectsRequest ==
    /\ call.limit # None => CollectedInAll(attempts) <= call.limit
    /\ ret.kind = "value" =>
          /\ \A i \in DOMAIN ret.val :
                /\ call.min_id # None => ret.val[i].id > call.min_id
                /\ call.max_id # None => ret.val[i].id < call.max_id
          /\ call.limit # None => Len(ret.val) <= call.limit

\* A call with both bounds and a limit returned limit records, collected
\* by two attempts with a rate-limit wait between them.
C22_Witness ==
    /\ ret.kind = "value"
    /\ call.min_id # None /\ call.max_id # None /\ call.limit # None
    /\ Len(ret.val) = call.limit
    /\ \E i, j \in DOMAIN attempts :
          /\ i < j
          /\ attempts[i].outcome = "flood"
          /\ attempts[i].collected # <<>>
          /\ attempts[j].collected # <<>>

----------------------------------------------------------------------------
\* C23: on a retry of fetch_messages_batch after some records were
\* collected, the next attempt keeps the other bound and narrows one: a
\* fetch with an upper bound (backward) continues with max_id = min of the
\* collected ids, a fetch without an upper bound (forward) continues with
\* min_id = max of the collected ids; the next attempt's limit is the limit
\* minus the number collected; and the batch finally returned holds each id
\* at most once.
C23_RetryNarrowsOneBound ==
    /\ \A i \in DOMAIN attempts :
          LET a == attempts[i]
          IN (/\ i < Len(attempts)
              /\ a.outcome = "flood"
              /\ a.collected # <<>>) =>
                LET b == attempts[i + 1]
                IN /\ IF a.max_id # None
                      THEN /\ b.min_id = a.min_id
                           /\ b.max_id = SetMin(Ids(a.collected))
                      ELSE /\ b.max_id = a.max_id
                           /\ b.min_id = SetMax(Ids(a.collected))
                   /\ b.limit = IF a.limit = None THEN None
                                ELSE a.limit - Len(a.collected)
                   /\ b.retry_count = a.retry_count + 1
    /\ ret.kind = "value" =>
          \A i, j \in DOMAIN ret.val :
              ret.val[i].id = ret.val[j].id => i = j

\* A backward fetch with a limit was interrupted after one record, went
\* on below that record and returned the records of both attempts.
C23_Witness ==
    /\ ret.kind = "value"
    /\ Len(attempts) = 2
    /\ call.max_id # None /\ call.limit = 2
    /\ attempts[1].outcome = "flood"
    /\ Len(attempts[1].collected) = 1
    /\ attempts[2].max_id = attempts[1].collected[1].id
    /\ attempts[2].max_id < call.max_id
    /\ attempts[2].limit = 1
    /\ Len(ret.val) = 2

----------------------------------------------------------------------------
\* C24: every fetch issued by the monitor loop terminates after a bounded
\* number of rate-limit retries: even if the channel answers every attempt
\* with a rate-limit signal, fetch_new_messages returns, so the monitor
\* loop always reaches its sleep (and from there its next shutdown check).
C24_MonitorFetchTerminates ==
    (monitor.pc = "fetching") ~> (monitor.pc = "sleeping")

\* The monitor task waits out a rate limit inside fetch_new_messages.
C24_Witness ==
    /\ monitor.pc = "flood_sleep"
    /\ shutdown_requested

\* Once the channel stops answering with rate-limit signals, the fetch
\* returns and the loop reaches its sleep.
FetchTerminatesOnceRateLimitEnds ==
    <>[][~MonitorFloodWait]_vars => C24_MonitorFetchTerminates

----------------------------------------------------------------------------
\* C25: every id recorded in deleted_ids is absent from the channel at the
\* time it is recorded: gap detection never marks as deleted an id that the
\* channel still holds and that was merely not fetched because a fetch
\* returned a partial batch (retries used up, a transient failure, or the
\* resume after a rate limit).
C25_DeletedIdsAreAbsentUpstream ==
    [][\A i \in Elements(Persisted'.deleted_ids)
                    \ Elements(Persisted.deleted_ids) : i \notin upstream']_vars

\* A run has recorded as deleted an id the channel holds.
C25_Witness ==
    \E i \in Elements(Persisted.deleted_ids) :
        /\ i \in upstream
        /\ i \notin StoredIds

----------------------------------------------------------------------------
\* The entries of the manifest (data_files) for the file of the given day.
ManifestEntries(index, day) ==
    {k \in DOMAIN index.data_files : index.data_files[k].filename = day}

\* C26: after every merge the written shard holds each record id at most
\* once, its records are in ascending order of id, and the record count of
\* its metadata and the count of the manifest entry of that file equal the
\* number of records stored in it.
C26_ShardWellFormedAfterMerge ==
    mg.step >= 1 =>
        LET stored == shard_files[today] IN
        /\ \A i, j \in DOMAIN stored : stored[i].id = stored[j].id => i = j
        /\ \A i, j \in DOMAIN stored : i < j => stored[i].id < stored[j].id
        /\ mg.total_messages = Len(stored)
        /\ Cardinality(ManifestEntries(Persisted, today)) = 1
        /\ \A k \in ManifestEntries(Persisted, today) :
              Persisted.data_files[k].posts_count = Len(stored)

\* Two batches in descending order that overlap each other and the shard
\* were merged, the second holding fewer records than the shard then has.
C26_Witness ==
    /\ mg.step = 2
    /\ Len(mg.second) = 2
    /\ mg.second[1].id > mg.second[2].id
    /\ Ids(mg.second) \cap Ids(mg.first) # {}
    /\ Ids(mg.first) \cap Ids(mg.shard0) # {}
    /\ Len(shard_files[today]) = 3

----------------------------------------------------------------------------
\* C27: under any interleaving of the monitor task and the backfill task of
\* a source that merge into the same day's shard, the shard after a merge
\* holds every record of the merged batch and every record it held before:
\* no record written by one loop is lost to the other loop's shard write.
C27_ShardWritesLoseNothing ==
    [][/\ shard_files' # shard_files =>
            \A d \in Days : Ids(shard_files[d]) \subseteq Ids(shard_files'[d])
       /\ \A k \in 0..MaxId :
            LET new == NewAvailable(monitor.index.last_known_id)
                old == OldAvailable(backfill.index.min_known_id,
                                    BACKFILL_LIMIT)
            IN /\ (/\ monitor'.pc = "sleeping"
                   /\ k <= Len(new)
                   /\ MonitorReturns(Prefix(new, k))) =>
                     Ids(Prefix(new, k)) \subseteq Ids(shard_files'[today])
               /\ (/\ backfill'.pc = "sleeping"
                   /\ k <= Len(old)
                   /\ BackfillReturns(Prefix(old, k))) =>
                     Ids(Prefix(old, k)) \subseteq Ids(shard_files'[today])
      ]_vars

\* The backfill cycle wrote its records and its copy of the index while a
\* monitor cycle that had loaded the index was suspended; the monitor cycle
\* then merged into the same shard, which holds the records of both.
C27_Witness ==
    /\ shard_files[today] # <<>>
    /\ \A d \in Days \ {today} : shard_files[d] = <<>>
    /\ Persisted.last_backfill = None
    /\ Persisted.min_known_id # None
    /\ \E i \in Ids(shard_files[today]) : i < Persisted.min_known_id
    /\ \E i \in Ids(shard_files[today]) : i = Persisted.last_known_id

----------------------------------------------------------------------------
\* C28: no record id is ever stored in more than one shard of the same
\* source: after any sequence of monitor and backfill cycles spanning
\* several collection dates, under any interleaving of the two loops, each
\* id appears in at most one day's shard.
C28_IdInOneShardOnly ==
    \A d, e \in Days : d # e => Ids(shard_files[d]) \cap Ids(shard_files[e]) = {}

\* Both loops have stored records, on two collection dates.
C28_Witness ==
    /\ \A d \in Days : shard_files[d] # <<>>
    /\ Persisted.last_backfill # None
    /\ Len(Persisted.data_files) = 2

----------------------------------------------------------------------------
\* C29: a crash between the two writes of a cycle is recoverable: when the
\* process died after save_messages wrote the shard and before it wrote the
\* index, then after the restart and the next successful cycle of the
\* source the index agrees with the shards again: total_posts_archived
\* counts the records written before the crash, and min_known_id to
\* last_known_id covers their ids.
C29_CrashBetweenWritesRecovered ==
    (mg.step = 2 /\ mg.second # <<>>) =>
        /\ Persisted.total_posts_archived = Cardinality(StoredIds)
        /\ \A i \in Ids(mg.first) :
              /\ Persisted.min_known_id # None
              /\ Persisted.min_known_id <= i
              /\ i <= Persisted.last_known_id

\* The cycle after the restart has fetched again what the crashed cycle
\* had written, and more.
C29_Witness ==
    /\ mg.step = 2
    /\ Ids(mg.first) \subseteq Ids(mg.second)
    /\ Ids(mg.second) # Ids(mg.first)
    /\ mg.shard0 # <<>>

----------------------------------------------------------------------------
\* C30: in every reachable state of the one-shot archiver, deleted_ids
\* holds no id twice, deleted_count is the number of ids in deleted_ids,
\* every id of deleted_ids lies within min_known_id..last_known_id, and no
\* id of deleted_ids is stored in a shard of the manifest.
C30_DeletedIdsWellFormed ==
    LET deleted == Persisted.deleted_ids IN
    /\ \A i, j \in DOMAIN deleted : deleted[i] = deleted[j] => i = j
    /\ Persisted.deleted_count = Len(deleted)
    /\ \A i \in Elements(deleted) :
          /\ Persisted.min_known_id # None
          /\ Persisted.min_known_id <= i
          /\ i <= Persisted.last_known_id
    /\ Elements(deleted) \cap ExistingIds(Persisted, shard_files) = {}

\* Gaps were recorded by two runs, and records were stored on two days.
C30_Witness ==
    /\ Len(Persisted.deleted_ids) = 2
    /\ Len(Persisted.data_files) = 2
    /\ \A d \in Days : shard_files[d] # <<>>
    /\ fc.pc = "idle"

----------------------------------------------------------------------------
\* Backfill reaches the beginning: in the end min_known_id is the smallest
\* id of the channel and every id of the channel from it to last_known_id
\* is stored.
BackfillReachesBeginning ==
    <>[](/\ Persisted.min_known_id = SetMin(upstream)
         /\ \A i \in upstream :
               i <= Persisted.last_known_id => i \in StoredIds)

\* A write of the monitor loop leaves min_known_id where it was or lowers
\* it.
MonitorWriteKeepsBackfillProgress ==
    [][(/\ monitor.pc = "fetching"
        /\ monitor'.pc = "sleeping"
        /\ Persisted.min_known_id # None) =>
            /\ Persisted'.min_known_id # None
            /\ Persisted'.min_known_id <= Persisted.min_known_id]_vars

\* C31: backfill makes progress to the beginning: when the history of the
\* channel is finite, no fetch fails and both loops keep running, the
\* persisted min_known_id eventually reaches the smallest id of the channel
\* and every id of the channel between it and last_known_id is stored; and
\* the progress of a backfill cycle is never undone by a later write of the
\* monitor loop.
C31_BackfillProgress ==
    BackfillReachesBeginning /\ MonitorWriteKeepsBackfillProgress

\* The monitor loop has written its copy of the index over the one a
\* backfill cycle wrote meanwhile: records below min_known_id are stored.
C31_Witness ==
    /\ Persisted.min_known_id # None
    /\ \E i \in StoredIds : i < Persisted.min_known_id
    /\ monitor.pc = "sleeping"
====
